---- MODULE Spec2Model ----
(***************************************************************************)
(* Model of packages/rest/src/handlers.ts: the router assembly            *)
(* (createControllerRouter, registerControllers) and the per-request      *)
(* middleware chain (createAuthHandler, createBizHandler, catchError).    *)
(*                                                                         *)
(* JavaScript strings that the code inspects are sequences of one-letter  *)
(* strings, so that split, replace, toLowerCase and startsWith are        *)
(* computed and not assumed.  Rejected promises of async handlers are     *)
(* forwarded to next(err), as the router of express 5 does.               *)
(***************************************************************************)
EXTENDS Integers, Sequences, FiniteSets, TLC

\* ------------------------------------------------------------------ bounds
\* largest number of controller files in the controller directory
MaxFiles == 2

\* ------------------------------------------------------- JavaScript values
Undefined == <<"undefined">>

\* truthiness of a string-or-undefined value: undefined and '' are falsy
Truthy(v) == v # Undefined /\ v # <<>>

\* a || b
OrElse(a, b) == IF Truthy(a) THEN a ELSE b

\* String.prototype.startsWith
StartsWith(s, p) == Len(s) >= Len(p) /\ SubSeq(s, 1, Len(p)) = p

\* position of the first occurrence of pat in s, 0 when there is none
IndexOf(s, pat) ==
  LET hits == {i \in 1..(Len(s) - Len(pat) + 1) : SubSeq(s, i, i + Len(pat) - 1) = pat}
  IN IF hits = {} THEN 0 ELSE CHOOSE i \in hits : \A j \in hits : i <= j

\* String.prototype.replace with a string pattern: first occurrence only
Replace(s, pat, rep) ==
  LET i == IndexOf(s, pat)
  IN IF i = 0 THEN s
     ELSE SubSeq(s, 1, i - 1) \o rep \o SubSeq(s, i + Len(pat), Len(s))

LowerChar(c) == IF c = "G" THEN "g" ELSE IF c = "P" THEN "p" ELSE c

\* String.prototype.toLowerCase
ToLowerCase(s) == [i \in 1..Len(s) |-> LowerChar(s[i])]

RECURSIVE SplitFrom(_, _, _)
SplitFrom(s, i, cur) ==
  IF i > Len(s) THEN <<cur>>
  ELSE IF s[i] = " " THEN <<cur>> \o SplitFrom(s, i + 1, <<>>)
  ELSE SplitFrom(s, i + 1, Append(cur, s[i]))

\* String.prototype.split(' ')
Split(s) == SplitFrom(s, 1, <<>>)

\* Array.prototype.includes
Includes(arr, x) == \E i \in 1..Len(arr) : arr[i] = x

\* ----------------------------------------------------------------- names
GetJs    == <<"g", "e", "t", ".", "j", "s">>
GetCapJs == <<"G", "e", "t", ".", "j", "s">>
PatchJs  == <<"p", "a", "t", "c", "h", ".", "j", "s">>
PutJs    == <<"p", "u", "t", ".", "j", "s">>
DotJs    == <<".", "j", "s">>

DirU     == <<"u">>
DirBrace == <<"{", "i", "}">>
DirM     == <<"m">>

\* the controller files a directory tree may hold, relative to controllerDir,
\* each as its '/'-separated segments
FileUsersId    == <<DirU, DirBrace, GetJs>>
FileUsersIdDup == <<DirU, DirBrace, GetCapJs>>
FileUsersMe    == <<DirU, DirM, GetJs>>
FileUsersPut   == <<DirU, PutJs>>
FileRootPatch  == <<PatchJs>>

AllFiles == {FileUsersId, FileUsersIdDup, FileUsersMe, FileUsersPut, FileRootPatch}

ScopeR     == <<"r">>
ScopeW     == <<"w">>
ScopeAdmin == <<"*", ":", "a", "d", "m", "i", "n">>

\* static members of a controller class
Controller(isPublic, scope, successStatusCode) ==
  [isPublic |-> isPublic, scope |-> scope, successStatusCode |-> successStatusCode]

\* the controller classes a file may export
Controllers ==
  {Controller(TRUE, Undefined, 200), Controller(FALSE, ScopeR, 201),
   Controller(FALSE, Undefined, 200)}

\* payload a controller returns when execute() succeeds
PayloadOf(file) == [payload |-> file]

\* the jwts option: absent, a URL, or an inline JWKS document
JwtsRemote == <<"h", "t", "t", "p", ":", "k">>
JwtsInline == <<"{", "k", "}">>
JwtsValues == {Undefined, JwtsRemote, JwtsInline}
Http       == <<"h", "t", "t", "p">>

Get   == <<"g", "e", "t">>
Post  == <<"p", "o", "s", "t">>
Patch == <<"p", "a", "t", "c", "h">>

\* mutant: put is accepted as a method
allowedMethodsWithPut == <<Get, Post, Patch, <<"p", "u", "t">>>>

allowedMethods == <<Get, Post, Patch>>

\* parts.pop()?.replace('.js', '').toLowerCase()
MethodOf(file) == ToLowerCase(Replace(file[Len(file)], DotJs, <<>>))

\* util.openApiPathToExpressPath: '{id}' becomes ':id'
openApiPathToExpressPath(p) ==
  IF Len(p) >= 2 /\ p[1] = "{" /\ p[Len(p)] = "}"
  THEN <<":">> \o SubSeq(p, 2, Len(p) - 1)
  ELSE p

\* '/' + parts.map(openApiPathToExpressPath).join('/'), kept as its segments
UrlPathOf(file) ==
  [i \in 1..(Len(file) - 1) |-> openApiPathToExpressPath(file[i])]

\* ----------------------------------------------------------------- errors
\* RestError.unauthorized(message)
RestUnauthorized(msg) ==
  [kind |-> "RestError", statusCode |-> 401, errorData |-> Undefined, errorMessage |-> msg]

\* RestError.forbidden()
RestForbidden ==
  [kind |-> "RestError", statusCode |-> 403, errorData |-> Undefined, errorMessage |-> "Forbidden"]

\* any error that is not a RestError
PlainError(msg) ==
  [kind |-> "Error", statusCode |-> 0, errorData |-> Undefined, errorMessage |-> msg]

NoError == [kind |-> "none", statusCode |-> 0, errorData |-> Undefined, errorMessage |-> ""]

\* ------------------------------------------------------------------ state
VARIABLES
  controllerDir,    \* the directory tree: controller file -> default-exported class
  jwts,             \* options.jwts
  defaultScope,     \* options.defaultScope
  controllerFiles,  \* files the glob iterator has not yielded yet
  router,           \* the router's layer stack, in registration order
  assembly,         \* createControllerRouter: "running", "returned" or "threw"
  thrown,           \* the error createControllerRouter threw
  mounted,          \* app.use('/rest', router) has run
  phase,            \* request handling: "idle", "routing" or "done"
  req,              \* the request in flight: method, path, headers, auth
  idx,              \* position of the request in the layer stack
  err,              \* the error being passed to next(err)
  res,              \* the response: statusCode field and what went on the wire
  trace             \* what happened to the request in flight

vars == <<controllerDir, jwts, defaultScope, controllerFiles, router, assembly,
          thrown, mounted, phase, req, idx, err, res, trace>>

asmVars == <<controllerDir, jwts, defaultScope, controllerFiles, router, assembly,
             thrown, mounted>>

\* req.auth before any auth handler has set it
NoAuth == [unset |-> TRUE]

\* no body, no token payload
NoBody    == [unset |-> TRUE]
NoPayload == [unset |-> TRUE]

NoRequest ==
  [method |-> <<>>, path |-> <<>>, authorization |-> Undefined,
   personate |-> Undefined, auth |-> NoAuth]

\* a fresh express response
NewResponse ==
  [statusCode |-> 200, headersSent |-> FALSE, status |-> 0, body |-> NoBody,
   by |-> "nobody"]

\* nothing has happened to the request yet
EmptyTrace ==
  [executed |-> <<>>, nexted |-> {}, verified |-> {}, raised |-> NoError,
   translated |-> 0, lateWrites |-> 0, logged |-> 0]

\* a layer of the router's stack
Layer(kind, method, path, file, scope) ==
  [kind |-> kind, method |-> method, path |-> path, file |-> file, scope |-> scope]

UseLayer(kind) == Layer(kind, <<>>, <<>>, <<>>, Undefined)

\* the directory trees: between one and MaxFiles controller files
Trees == {t \in SUBSET AllFiles : Cardinality(t) >= 1 /\ Cardinality(t) <= MaxFiles}

\* createControllerRouter has been called: the glob iterator is created and the
\* cors, json and request-logging middleware are on the router
Init ==
  /\ \E t \in Trees : controllerDir \in [t -> Controllers]
  /\ jwts \in JwtsValues
  /\ defaultScope \in {Undefined, ScopeW}
  /\ controllerFiles = DOMAIN controllerDir
  /\ router = <<UseLayer("cors"), UseLayer("json"), UseLayer("logRequest")>>
  /\ assembly = "running"
  /\ thrown = NoError
  /\ mounted = FALSE
  /\ phase = "idle"
  /\ req = NoRequest
  /\ idx = 0
  /\ err = NoError
  /\ res = NewResponse
  /\ trace = EmptyTrace

\* ---------------------------------------------------------------- assembly
\* mutant: the biz handler is registered before the auth handler
RouteLayersBizFirst(file, c, method, urlPath) ==
  <<Layer("biz", method, urlPath, file, Undefined)>>
  \o (IF ~c.isPublic
      THEN <<Layer("auth", method, urlPath, file, OrElse(c.scope, defaultScope))>>
      ELSE <<>>)

\* the layers one loop iteration registers for a controller file
RouteLayers(file, c, method, urlPath) ==
  (IF ~c.isPublic
   THEN <<Layer("auth", method, urlPath, file, OrElse(c.scope, defaultScope))>>
   ELSE <<>>)
  \o <<Layer("biz", method, urlPath, file, Undefined)>>

\* the error of line 98, naming the file
InvalidMethodError(file) == [kind |-> "Error", what |-> "method", file |-> file]

\* the error of line 105, naming the route's path and method
JwtsRequiredError(urlPath, method) ==
  [kind |-> "Error", what |-> "jwts", urlPath |-> urlPath, method |-> method]

\* mutant: the isPublic flag is read the wrong way round
PrivateWithoutJwtsInverted(c) == c.isPublic /\ ~Truthy(jwts)

\* lines 103-104: the controller is private and no jwts option was given
PrivateWithoutJwts(c) == ~c.isPublic /\ ~Truthy(jwts)

\* one iteration of the for-await loop over the files the glob yields, in
\* whatever order the directory traversal produces them
LoopBody(file) ==
  LET method  == MethodOf(file)
      urlPath == UrlPathOf(file)
      c       == controllerDir[file]
  IN /\ assembly = "running"
     /\ file \in controllerFiles
     /\ controllerFiles' = controllerFiles \ {file}
     /\ IF ~Includes(allowedMethods, method)
        THEN /\ assembly' = "threw"
             /\ thrown' = InvalidMethodError(file)
             /\ router' = router
        ELSE IF PrivateWithoutJwts(c)
        THEN /\ assembly' = "threw"
             /\ thrown' = JwtsRequiredError(urlPath, method)
             /\ router' = router
        ELSE /\ router' = router \o RouteLayers(file, c, method, urlPath)
             /\ UNCHANGED <<assembly, thrown>>
     /\ UNCHANGED <<controllerDir, jwts, defaultScope, mounted, phase, req, idx,
                    err, res, trace>>

\* after the loop: catchError and the response logger are appended and the
\* router is returned
ReturnRouter ==
  /\ assembly = "running"
  /\ controllerFiles = {}
  /\ router' = router \o <<UseLayer("catchError"), UseLayer("logResponse")>>
  /\ assembly' = "returned"
  /\ UNCHANGED <<controllerDir, jwts, defaultScope, controllerFiles, thrown,
                 mounted, phase, req, idx, err, res, trace>>

\* registerControllers: the awaited router is mounted under /rest
registerControllers ==
  /\ assembly = "returned"
  /\ ~mounted
  /\ mounted' = TRUE
  /\ UNCHANGED <<controllerDir, jwts, defaultScope, controllerFiles, router,
                 assembly, thrown, phase, req, idx, err, res, trace>>

\* ------------------------------------------------------------ tokens, keys
BearerStr == <<"B", "e", "a", "r", "e", "r">>
BasicStr  == <<"B", "a", "s", "i", "c">>
Space     == <<" ">>

TokenA == <<"A">>
TokenC == <<"C">>
TokenD == <<"D">>
TokenX == <<"X">>

\* the tokens a client may present: the key that signed each, its sub and scope
\* claims, and the set of scopes the issuer granted (what the scope claim spells)
IssuedTokens ==
  [t \in {TokenA, TokenC, TokenD, TokenX} |->
     IF t = TokenA
       THEN [key |-> "k", sub |-> <<"a">>, scope |-> ScopeR \o Space \o ScopeAdmin,
             grants |-> {ScopeR, ScopeAdmin}]
     ELSE IF t = TokenC
       THEN [key |-> "k", sub |-> <<"c">>, scope |-> Undefined, grants |-> {}]
     ELSE IF t = TokenD
       THEN [key |-> "k", sub |-> <<"d">>, scope |-> ScopeW, grants |-> {ScopeW}]
     ELSE [key |-> "z", sub |-> <<"x">>, scope |-> ScopeR \o Space \o ScopeAdmin,
           grants |-> {ScopeR, ScopeAdmin}]]

Headers(authorization, personate) ==
  [authorization |-> authorization, personate |-> personate]

\* the Authorization and x-personate-sub headers a client sends
HeaderValues ==
  {Headers(Undefined, Undefined), Headers(<<>>, <<"z">>),
   Headers(BearerStr, Undefined), Headers(BasicStr \o Space \o TokenA, Undefined),
   Headers(BearerStr \o Space \o TokenA, Undefined),
   Headers(BearerStr \o Space \o TokenA, <<>>),
   Headers(BearerStr \o Space \o TokenA, <<"z">>),
   Headers(BearerStr \o Space \o TokenD, Undefined),
   Headers(BearerStr \o Space \o TokenD, <<"z">>),
   Headers(BearerStr \o Space \o TokenC, <<"z">>),
   Headers(BearerStr \o Space \o TokenX, <<"z">>)}

\* the (method, path) pairs a client requests
RequestLines ==
  {[method |-> Get, path |-> <<DirU, DirM>>], [method |-> Get, path |-> <<DirU, <<"7">>>>],
   [method |-> Patch, path |-> <<>>]}

\* arr[i] of a destructuring assignment: undefined past the end
ElementAt(arr, i) == IF i <= Len(arr) THEN arr[i] ELSE Undefined

\* createRemoteJWKSet(new URL(url)): the keys published at the URL
createRemoteJWKSet(url) == [ok |-> TRUE, keys |-> {url[Len(url)]}]

\* createLocalJWKSet(JSON.parse(text)): JSON.parse(undefined) throws a SyntaxError
createLocalJWKSet(text) ==
  IF text # Undefined /\ Len(text) >= 2 /\ text[1] = "{" /\ text[Len(text)] = "}"
  THEN [ok |-> TRUE, keys |-> {text[i] : i \in 2..(Len(text) - 1)}]
  ELSE [ok |-> FALSE, keys |-> {}]

\* lines 22-27: the local variable jwts is declared, not initialised, and it is
\* that variable, not options.jwts, the local branch parses
KeySet(optionsJwts) ==
  LET jwtsLocal == Undefined
  IN IF StartsWith(optionsJwts, Http)
     THEN createRemoteJWKSet(optionsJwts)
     ELSE createLocalJWKSet(jwtsLocal)

\* jwtVerify(token, keySet): fetched tells whether the key lookup succeeded
jwtVerify(token, keySet, fetched) ==
  IF token = Undefined \/ token \notin DOMAIN IssuedTokens THEN [ok |-> FALSE, payload |-> NoPayload]
  ELSE IF ~fetched \/ IssuedTokens[token].key \notin keySet.keys
    THEN [ok |-> FALSE, payload |-> NoPayload]
  ELSE [ok |-> TRUE, payload |-> IssuedTokens[token]]

\* scopes?.includes(x) with scopes = payload.scope?.split(' ')
ScopesInclude(scopeClaim, x) ==
  scopeClaim # Undefined /\ Includes(Split(scopeClaim), x)

\* mutant: a token without a scope claim passes the scope check
ScopeDeniedUnlessNoClaim(requiredScope, scopeClaim) ==
  /\ Truthy(requiredScope)
  /\ scopeClaim # Undefined
  /\ ~Includes(Split(scopeClaim), requiredScope)

\* lines 31-35: a required scope is set and the token's scopes lack it
ScopeDenied(requiredScope, scopeClaim) ==
  Truthy(requiredScope) /\ ~ScopesInclude(scopeClaim, requiredScope)

\* mutant: any token takes the x-personate-sub header as its subject
ImpersonateAnyone(auth, scopeClaim, personate) ==
  [auth EXCEPT !.sub = OrElse(personate, auth.sub)]

\* lines 44-46: an admin token takes the x-personate-sub header as its subject
Impersonate(auth, scopeClaim, personate) ==
  IF ScopesInclude(scopeClaim, ScopeAdmin)
  THEN [auth EXCEPT !.sub = OrElse(personate, auth.sub)]
  ELSE auth

\* result of a handler: the error it threw (NoError: it called next()), the
\* req.auth it left and the payload jwtVerify returned
Outcome(error, auth, payload) == [error |-> error, auth |-> auth, payload |-> payload]

\* lines 22-48, the body of the try block
TryBlock(options, r, token, fetched) ==
  LET keySet == KeySet(options.jwts)
      v      == jwtVerify(token, keySet, fetched)
      claim  == v.payload.scope
      auth   == [sub |-> v.payload.sub,
                 scopes |-> IF claim = Undefined THEN Undefined ELSE Split(claim)]
  IN IF ~keySet.ok THEN Outcome(PlainError("SyntaxError"), r.auth, NoPayload)
     ELSE IF ~v.ok THEN Outcome(PlainError("JOSEError"), r.auth, NoPayload)
     ELSE IF ScopeDenied(options.scope, claim)
       THEN Outcome(RestForbidden, r.auth, v.payload)
     ELSE Outcome(NoError, Impersonate(auth, claim, r.personate), v.payload)

\* mutant: the catch clause rethrows whatever it caught
CatchClauseRethrow(o) == o

\* lines 49-54, the catch clause
CatchClause(o) ==
  IF o.error.kind = "Error"
  THEN Outcome(RestUnauthorized("Unauthorized"), o.auth, o.payload)
  ELSE o

\* the handler createAuthHandler(options) returns, applied to a request
createAuthHandler(options, r, fetched) ==
  LET authorization == r.authorization
      parts     == Split(authorization)
      tokenType == ElementAt(parts, 1)
      token     == ElementAt(parts, 2)
  IN IF ~Truthy(authorization)
       THEN Outcome(RestUnauthorized("Authorization header is required."), r.auth, NoPayload)
     ELSE IF tokenType # BearerStr
       THEN Outcome(RestUnauthorized("Authorization token type is unsupported."),
                    r.auth, NoPayload)
     ELSE CatchClause(TryBlock(options, r, token, fetched))

\* ------------------------------------------------------- request handling
\* an express path pattern matches a request path: ':name' matches any segment
MatchPath(pattern, path) ==
  /\ Len(pattern) = Len(path)
  /\ \A i \in 1..Len(pattern) : pattern[i][1] = ":" \/ pattern[i] = path[i]

\* the layer handles the request in its current state: error handlers take a
\* pending error only, everything else takes no pending error; route layers
\* also need their method and path to match
Applies(layer, r, e) ==
  IF layer.kind = "catchError" THEN e # NoError
  ELSE IF layer.kind \in {"auth", "biz"}
    THEN e = NoError /\ layer.method = r.method /\ MatchPath(layer.path, r.path)
  ELSE e = NoError

AtLayer(kind) ==
  /\ phase = "routing"
  /\ idx <= Len(router)
  /\ router[idx].kind = kind
  /\ Applies(router[idx], req, err)

\* res.status(code).json(body): the status field is assigned, then the body is
\* sent unless the headers are already sent
Sent(code, body, by) ==
  [statusCode |-> code, headersSent |-> TRUE, status |-> code, body |-> body, by |-> by]

HeadersSentError == PlainError("ERR_HTTP_HEADERS_SENT")

\* what a controller's execute() may do
ExecuteOutcomes == {"returns", "throwsRestError", "throwsError"}

ControllerRestError ==
  [kind |-> "RestError", statusCode |-> 404, errorData |-> <<"d">>,
   errorMessage |-> "Not found"]

\* a client sends a request to the mounted router
Receive ==
  /\ mounted
  /\ phase = "idle"
  /\ \E line \in RequestLines, h \in HeaderValues :
       req' = [method |-> line.method, path |-> line.path, authorization |-> h.authorization,
               personate |-> h.personate, auth |-> NoAuth]
  /\ phase' = "routing"
  /\ idx' = 1
  /\ err' = NoError
  /\ res' = NewResponse
  /\ trace' = EmptyTrace
  /\ UNCHANGED asmVars

\* the router passes over a layer that does not handle the request
SkipLayer ==
  /\ phase = "routing"
  /\ idx <= Len(router)
  /\ ~Applies(router[idx], req, err)
  /\ idx' = idx + 1
  /\ UNCHANGED <<asmVars, phase, req, err, res, trace>>

\* cors(), json() and the request logger call next()
Middleware ==
  /\ \E kind \in {"cors", "json", "logRequest"} : AtLayer(kind)
  /\ idx' = idx + 1
  /\ UNCHANGED <<asmVars, phase, req, err, res, trace>>

\* the auth handler of a private route
HandleAuth ==
  /\ AtLayer("auth")
  /\ \E fetched \in BOOLEAN :
       LET o == createAuthHandler([jwts |-> jwts, scope |-> router[idx].scope], req, fetched)
       IN /\ req' = [req EXCEPT !.auth = o.auth]
          /\ err' = o.error
          /\ trace' = [trace EXCEPT
                         !.verified = IF o.payload # NoPayload THEN @ \cup {idx} ELSE @,
                         !.nexted = IF o.error = NoError THEN @ \cup {idx} ELSE @,
                         !.raised = IF o.error # NoError THEN o.error ELSE @]
  /\ idx' = idx + 1
  /\ UNCHANGED <<asmVars, phase, res>>

\* the biz handler: construct the controller, execute it, write the result,
\* call next()
createBizHandler ==
  /\ AtLayer("biz")
  /\ \E outcome \in ExecuteOutcomes :
       LET c == controllerDir[router[idx].file]
           ran == [layer |-> idx, outcome |-> outcome, auth |-> req.auth,
                   sentBefore |-> res.headersSent]
       IN IF outcome = "returns"
          THEN IF res.headersSent
               THEN /\ res' = [res EXCEPT !.statusCode = c.successStatusCode]
                    /\ err' = HeadersSentError
                    /\ trace' = [trace EXCEPT !.executed = Append(@, ran),
                                              !.lateWrites = @ + 1]
               ELSE /\ res' = Sent(c.successStatusCode,
                                   PayloadOf(router[idx].file), "biz")
                    /\ err' = NoError
                    /\ trace' = [trace EXCEPT !.executed = Append(@, ran)]
          ELSE LET e == IF outcome = "throwsRestError" THEN ControllerRestError
                        ELSE PlainError("controller failure")
               IN /\ res' = res
                  /\ err' = e
                  /\ trace' = [trace EXCEPT !.executed = Append(@, ran), !.raised = e]
  /\ idx' = idx + 1
  /\ UNCHANGED <<asmVars, phase, req>>

\* the body catchError sends
ErrorBody(e) ==
  IF e.kind = "RestError"
  THEN [error |-> [data |-> e.errorData, message |-> e.errorMessage]]
  ELSE [error |-> [message |-> "Internal error."]]

ErrorStatus(e) == IF e.kind = "RestError" THEN e.statusCode ELSE 500

\* the error translator
catchError ==
  /\ AtLayer("catchError")
  /\ IF res.headersSent
     THEN /\ res' = [res EXCEPT !.statusCode = ErrorStatus(err)]
          /\ err' = HeadersSentError
          /\ trace' = [trace EXCEPT !.translated = @ + 1, !.lateWrites = @ + 1]
     ELSE /\ res' = Sent(ErrorStatus(err), ErrorBody(err), "catchError")
          /\ err' = NoError
          /\ trace' = [trace EXCEPT !.translated = @ + 1]
  /\ idx' = idx + 1
  /\ UNCHANGED <<asmVars, phase, req>>

\* the response logger
logResponse ==
  /\ AtLayer("logResponse")
  /\ trace' = [trace EXCEPT !.logged = res.statusCode]
  /\ idx' = idx + 1
  /\ UNCHANGED <<asmVars, phase, req, err, res>>

\* the request leaves the router: nothing else is mounted on the app, whose
\* final handler answers 404 when no response was sent
LeaveRouter ==
  /\ phase = "routing"
  /\ idx > Len(router)
  /\ res' = IF res.headersSent THEN res ELSE Sent(404, NoBody, "express")
  /\ phase' = "done"
  /\ UNCHANGED <<asmVars, req, idx, err, trace>>

\* the request is over: its request and response objects are discarded
EndRequest ==
  /\ phase = "done"
  /\ phase' = "idle"
  /\ req' = NoRequest
  /\ idx' = 0
  /\ err' = NoError
  /\ res' = NewResponse
  /\ trace' = EmptyTrace
  /\ UNCHANGED asmVars

Next ==
  \/ \E file \in AllFiles : LoopBody(file)
  \/ ReturnRouter
  \/ registerControllers
  \/ Receive
  \/ SkipLayer
  \/ Middleware
  \/ HandleAuth
  \/ createBizHandler
  \/ catchError
  \/ logResponse
  \/ LeaveRouter
  \/ EndRequest

Spec == Init /\ [][Next]_vars

\* ------------------------------------------------------------- properties
RouteLayerKinds == {"auth", "biz"}

\* the route layers whose method and path match the request
MatchingRoutes(r) ==
  {i \in 1..Len(router) :
     /\ router[i].kind \in RouteLayerKinds
     /\ router[i].method = r.method
     /\ MatchPath(router[i].path, r.path)}

\* the layer a request is routed to: the first matching route layer, 0 if none
FirstRoute(r) ==
  LET m == MatchingRoutes(r)
  IN IF m = {} THEN 0 ELSE CHOOSE i \in m : \A j \in m : i <= j

Done == phase = "done"

\* the request goes to a private route: its first matching layer is an auth handler
ToPrivateRoute == FirstRoute(req) # 0 /\ router[FirstRoute(req)].kind = "auth"

\* the token of an 'Authorization: Bearer <token>' header, if it is an issued one
BearerToken(r) ==
  IF \E t \in DOMAIN IssuedTokens : r.authorization = BearerStr \o Space \o t
  THEN CHOOSE t \in DOMAIN IssuedTokens : r.authorization = BearerStr \o Space \o t
  ELSE Undefined

\* the keys the jwts option stands for: the key set at the URL, or the keys of
\* the inline document
ConfiguredKeys ==
  IF jwts = JwtsRemote THEN {"k"} ELSE IF jwts = JwtsInline THEN {"k"} ELSE {}

\* the request carries a token signed by one of the configured keys
SignedByConfiguredKey(r) ==
  BearerToken(r) # Undefined /\ IssuedTokens[BearerToken(r)].key \in ConfiguredKeys

\* the scope a route requires: the controller's own, or else the default
RequiredScope(file) ==
  IF controllerDir[file].scope # Undefined THEN controllerDir[file].scope
  ELSE defaultScope

\* the token of the request grants what the route of the file requires
ScopeGranted(r, file) ==
  \/ RequiredScope(file) = Undefined
  \/ RequiredScope(file) \in IssuedTokens[BearerToken(r)].grants

IsPublic(i) == controllerDir[router[i].file].isPublic

\* C1: a private route has its auth handler right before its biz handler and a
\* public route has none; a private controller is executed only after its auth
\* handler verified the token, passed the scope check and called next(); a
\* request routed to a public route executes the controller whatever its headers
C1_AuthBeforeController ==
  /\ \A i \in 1..Len(router) : router[i].kind = "biz" =>
       IF IsPublic(i)
       THEN \A j \in 1..Len(router) :
              router[j].kind = "auth" => router[j].file # router[i].file
       ELSE /\ i > 1
            /\ router[i - 1].kind = "auth"
            /\ router[i - 1].file = router[i].file
            /\ router[i - 1].method = router[i].method
            /\ router[i - 1].path = router[i].path
  /\ \A k \in 1..Len(trace.executed) :
       LET i == trace.executed[k].layer
       IN \/ IsPublic(i)
          \/ /\ (i - 1) \in trace.nexted
             /\ trace.executed[k].auth # NoAuth
  /\ \A j \in trace.nexted :
       /\ SignedByConfiguredKey(req)
       /\ ScopeGranted(req, router[j].file)
  /\ (Done /\ FirstRoute(req) # 0 /\ router[FirstRoute(req)].kind = "biz") =>
       /\ Len(trace.executed) >= 1
       /\ trace.executed[1].layer = FirstRoute(req)

\* C1 witness: a private controller has been executed for a finished request
C1_Witness ==
  /\ Done
  /\ \E k \in 1..Len(trace.executed) : ~IsPublic(trace.executed[k].layer)

\* C2: a finished request to a private route is answered 401 by the error
\* translator when the Authorization header is absent or empty, when its scheme
\* is not Bearer, and when the token did not verify
C2_Unauthorized ==
  (Done /\ ToPrivateRoute) =>
    LET absent   == req.authorization \in {Undefined, <<>>}
        scheme   == ~absent /\ req.authorization # BearerStr
                    /\ ~StartsWith(req.authorization, BearerStr \o Space)
        unsigned == ~SignedByConfiguredKey(req)
        failed   == FirstRoute(req) \notin trace.verified
    IN (absent \/ scheme \/ unsigned \/ failed) =>
         /\ res.status = 401
         /\ res.by = "catchError"
         /\ trace.executed = <<>>

\* C2 witness: a Bearer token that does not verify was answered
C2_Witness ==
  /\ Done
  /\ ToPrivateRoute
  /\ BearerToken(req) # Undefined
  /\ FirstRoute(req) \notin trace.verified
  /\ res.status = 401

\* C3: a finished request to a private route whose token verified is answered
\* 403 without executing the controller when the token's scopes lack the
\* route's required scope, and passes the auth handler otherwise
C3_Forbidden ==
  (Done /\ ToPrivateRoute /\ FirstRoute(req) \in trace.verified) =>
    LET a == FirstRoute(req)
    IN IF ScopeGranted(req, router[a].file)
       THEN /\ a \in trace.nexted
            /\ Len(trace.executed) >= 1
            /\ trace.executed[1].layer = a + 1
       ELSE /\ res.status = 403
            /\ res.by = "catchError"
            /\ trace.executed = <<>>

\* C3 witness: a verified token without a scope claim was refused
C3_Witness ==
  /\ Done
  /\ ToPrivateRoute
  /\ FirstRoute(req) \in trace.verified
  /\ BearerToken(req) = TokenC
  /\ res.status = 403

\* C4 as claimed: with an admin token the subject is the value of the
\* x-personate-sub header whenever the request carries that header
C4_AsClaimed ==
  (req.auth # NoAuth /\ ScopeAdmin \in IssuedTokens[BearerToken(req)].grants
     /\ req.personate # Undefined) =>
    req.auth.sub = req.personate

\* C4 amended: the subject of an authenticated request is the x-personate-sub
\* value when the token is an admin one and the header is present and not
\* empty; otherwise it is the token's own sub claim
C4_Subject ==
  req.auth # NoAuth =>
    LET t == IssuedTokens[BearerToken(req)]
    IN IF ScopeAdmin \in t.grants /\ req.personate \notin {Undefined, <<>>}
       THEN req.auth.sub = req.personate
       ELSE req.auth.sub = t.sub

\* C4 witness: an admin token acts for the subject named in the header
C4_Witness ==
  /\ req.auth # NoAuth
  /\ ScopeAdmin \in IssuedTokens[BearerToken(req)].grants
  /\ req.personate = <<"z">>
  /\ req.auth.sub = <<"z">>

\* C5 as claimed: a returned router holds one route per (method, path)
C5_OneRoutePerMethodAndPath ==
  assembly = "returned" =>
    \A i, j \in 1..Len(router) :
      (router[i].kind = "biz" /\ router[j].kind = "biz"
         /\ router[i].method = router[j].method /\ router[i].path = router[j].path)
        => i = j

\* the file name without its '.js' suffix, lowercased, is no allowed method
InvalidFile(file) ==
  LET name == file[Len(file)]
  IN ToLowerCase(SubSeq(name, 1, Len(name) - 3)) \notin {Get, Post, Patch}

\* C6: a tree with a file that names no allowed method yields no router: the
\* assembly never returns, nothing is mounted, no request is served, the loop
\* cannot finish without throwing, and the method error names such a file
C6_InvalidMethodFails ==
  /\ (\E file \in DOMAIN controllerDir : InvalidFile(file)) =>
       /\ assembly # "returned"
       /\ ~mounted
       /\ phase = "idle"
       /\ controllerFiles = {} => assembly = "threw"
  /\ (assembly = "threw" /\ thrown.what = "method") =>
       /\ thrown.file \in DOMAIN controllerDir
       /\ InvalidFile(thrown.file)

\* C6 witness: the assembly threw on the file after registering a valid route
C6_Witness ==
  /\ assembly = "threw"
  /\ thrown.what = "method"
  /\ \E i \in 1..Len(router) : router[i].kind = "biz"

\* C7: without a jwts option a tree with a private controller yields no router
\* and the jwts error names the path and method of a private controller's
\* route; a tree of public controllers in valid files never throws
C7_PrivateNeedsJwts ==
  /\ (jwts = Undefined /\ \E file \in DOMAIN controllerDir : ~controllerDir[file].isPublic) =>
       /\ assembly # "returned"
       /\ ~mounted
       /\ phase = "idle"
       /\ controllerFiles = {} => assembly = "threw"
  /\ (assembly = "threw" /\ thrown.what = "jwts") =>
       /\ jwts = Undefined
       /\ \E file \in DOMAIN controllerDir :
            /\ ~controllerDir[file].isPublic
            /\ thrown.urlPath = UrlPathOf(file)
            /\ thrown.method = MethodOf(file)
  /\ (\A file \in DOMAIN controllerDir : controllerDir[file].isPublic /\ ~InvalidFile(file)) =>
       assembly # "threw"

\* C7 witness: the assembly threw on a private route after registering a
\* public one
C7_Witness ==
  /\ assembly = "threw"
  /\ thrown.what = "jwts"
  /\ \E i \in 1..Len(router) : router[i].kind = "biz"

\* C8 as claimed: whenever a controller returned, the response is its status
\* and payload, written by the biz handler, the error translator did not run,
\* nothing was written late, and the controller ran once
C8_RoundTrip ==
  Done =>
    \A k \in 1..Len(trace.executed) :
      LET e == trace.executed[k]
      IN e.outcome = "returns" =>
           /\ res.by = "biz"
           /\ res.status = controllerDir[router[e.layer].file].successStatusCode
           /\ res.body = PayloadOf(router[e.layer].file)
           /\ res.statusCode = res.status
           /\ trace.translated = 0
           /\ trace.lateWrites = 0
           /\ \A l \in 1..Len(trace.executed) : trace.executed[l].layer = e.layer => l = k

\* C9 as claimed: an error raised by an auth handler or a controller is
\* answered once by the error translator, a RestError with its status and
\* {error: {data, message}}, anything else with 500 and the generic message
C9_ErrorAnswered ==
  (Done /\ trace.raised # NoError) =>
    /\ res.by = "catchError"
    /\ trace.translated = 1
    /\ trace.lateWrites = 0
    /\ IF trace.raised.kind = "RestError"
       THEN /\ res.status = trace.raised.statusCode
            /\ res.body = [error |-> [data |-> trace.raised.errorData,
                                      message |-> trace.raised.errorMessage]]
       ELSE /\ res.status = 500
            /\ res.body = [error |-> [message |-> "Internal error."]]

\* C10 as claimed: on a private route configured with an inline JWKS document,
\* a token signed by a key of the document and granting the required scope
\* passes the auth handler and is not answered 401
C10_InlineJwks ==
  (Done /\ ToPrivateRoute /\ jwts = JwtsInline /\ SignedByConfiguredKey(req)
     /\ ScopeGranted(req, router[FirstRoute(req)].file)) =>
    /\ FirstRoute(req) \in trace.nexted
    /\ res.status # 401

====
